---- MODULE Spec2Model ----
(***************************************************************************)
(* textdb: read-only key lookup over a newline-delimited, tab-separated    *)
(* text buffer sorted by a key column.                                     *)
(*                                                                         *)
(* Bytes are modelled by their ASCII codes, buffers by sequences of bytes. *)
(* Offsets are the 0-based usize offsets of the source: the byte at offset *)
(* p of buffer b is b[p+1], and the slice b[lo..hi] is SubSeq(b, lo+1, hi).*)
(***************************************************************************)
EXTENDS Integers, Sequences, FiniteSets

\* ------------------------------------------------------------------ bytes

\* b'\n', the record terminator.
NL == 10

\* Accessor::SEPARATOR, b'\t'.
SEPARATOR == 9

\* The largest value of the parsed key type Ty = u8.
U8_MAX == 255

\* The digits '0' and '1' and the letter 'A'.
KeyBytes == {48, 49, 65}

Digits == 48..57

Alphabet == KeyBytes \cup {NL, SEPARATOR}

\* ----------------------------------------------------------------- bounds

\* Longest content drawn over the whole alphabet.
MaxLen == 3

\* Most lines of a content built from one-byte lines.
MaxLines == 4

\* Largest column index asked of cols(i).
MaxCol == 2

\* Longest byte-string key asked of get_matching_lines.
MaxKeyLen == 1

\* Most lines on either side of the run in the contents of SpecCentred.
MaxSide == 8

\* --------------------------------------------------------------- helpers

SetMax(S) == CHOOSE x \in S : \A y \in S : y <= x

SetMin(S) == CHOOSE x \in S : \A y \in S : x <= y

SeqsUpTo(S, n) == UNION {[1..m -> S] : m \in 0..n}

\* bytes[lo..hi]
Slice(b, lo, hi) == SubSeq(b, lo + 1, hi)

\* <[u8]>::split: the subslices between separator bytes; a slice holding n
\* separators yields n+1 subslices, the empty slice yields one empty subslice.
RECURSIVE Split(_, _)
Split(s, sep) ==
    LET at == {p \in 1..Len(s) : s[p] = sep}
    IN  IF at = {} THEN <<s>>
        ELSE LET p == SetMin(at)
             IN  <<SubSeq(s, 1, p - 1)>> \o Split(SubSeq(s, p + 1, Len(s)), sep)

\* Ord::cmp on integers.
CmpInt(a, b) == IF a < b THEN "Less" ELSE IF a > b THEN "Greater" ELSE "Equal"

\* Ord::cmp on byte slices: lexicographic, a proper prefix is Less.
RECURSIVE CmpBytes(_, _)
CmpBytes(a, b) ==
    IF a = <<>> THEN (IF b = <<>> THEN "Equal" ELSE "Less")
    ELSE IF b = <<>> THEN "Greater"
    ELSE IF Head(a) < Head(b) THEN "Less"
    ELSE IF Head(a) > Head(b) THEN "Greater"
    ELSE CmpBytes(Tail(a), Tail(b))

\* ------------------------------------------------------------- accessor

\* The loop of Accessor::col over the split iterator: i times next(), giving
\* up with the empty slice when the iterator is exhausted, then one more next().
RECURSIVE col_iter(_, _)
col_iter(fields, i) ==
    IF fields = <<>> THEN <<>>
    ELSE IF i = 0 THEN Head(fields)
    ELSE col_iter(Tail(fields), i - 1)

\* A plausible slip: an index past the last field is clamped to the last field.
col_clamped(line, i) ==
    LET fields == Split(line, SEPARATOR)
    IN  IF i + 1 <= Len(fields) THEN fields[i + 1] ELSE fields[Len(fields)]

\* Accessor::col
col(line, i) == col_iter(Split(line, SEPARATOR), i)

\* Accessor::key with KEY_COLUMN = kc
key(kc, line) == col(line, kc)

\* The decimal value of a slice of digits.
RECURSIVE DecimalValue(_)
DecimalValue(s) ==
    IF s = <<>> THEN 0
    ELSE 10 * DecimalValue(SubSeq(s, 1, Len(s) - 1)) + (s[Len(s)] - 48)

\* from_utf8(..).unwrap_or_default().parse::<u8>().unwrap_or_default(): the
\* empty string, a byte that is no digit and a value above u8::MAX fail to
\* parse, and a failed parse gives u8::default() = 0.
parse_or_default(s) ==
    IF s = <<>> \/ (\E p \in 1..Len(s) : s[p] \notin Digits) THEN 0
    ELSE IF DecimalValue(s) > U8_MAX THEN 0
    ELSE DecimalValue(s)

\* Accessor::compare_lines, for TsvText<kc> and TsvParse<u8, kc>
compare_lines(acc, kc, line1, line2) ==
    IF acc = "TsvText"
    THEN CmpBytes(key(kc, line1), key(kc, line2))
    ELSE CmpInt(parse_or_default(key(kc, line1)), parse_or_default(key(kc, line2)))

\* Accessor::compare_key, for TsvText<kc> and TsvParse<u8, kc>
compare_key(acc, kc, line, k2) ==
    IF acc = "TsvText"
    THEN CmpBytes(key(kc, line), k2)
    ELSE CmpInt(parse_or_default(key(kc, line)), k2)

\* ----------------------------------------------------------------- maps

\* while i > 0 && mmap[i-1] == b'\n' { i -= 1 }
RECURSIVE strip_loop(_, _)
strip_loop(mmap, i) ==
    IF i > 0 /\ mmap[i] = NL THEN strip_loop(mmap, i - 1) ELSE i

\* SafeMemoryMap::from_str: mmap[0..i].to_vec()
from_str(value) == Slice(value, 0, strip_loop(value, Len(value)))

\* SafeMemoryMap::from_string: mmap.truncate(i)
from_string(value) ==
    LET i == strip_loop(value, Len(value))
    IN  [p \in 1..i |-> value[p]]

\* SafeMemoryMap::from_file: read_to_string, then from_string
from_file(content) == from_string(content)

\* UnsafeMemoryMap::new: the mapping of the file as it is
UnsafeMemoryMap_new(content) == content

Constructors == {"from_str", "from_string", "from_file", "UnsafeMemoryMap_new"}

\* MemoryMap::bytes of the map built by constructor c from content
map_bytes(c, content) ==
    CASE c = "from_str" -> from_str(content)
      [] c = "from_string" -> from_string(content)
      [] c = "from_file" -> from_file(content)
      [] c = "UnsafeMemoryMap_new" -> UnsafeMemoryMap_new(content)

\* --------------------------------------------------------------- TextDb

\* The lines of a buffer: bytes.split(|b| *b == b'\n')
lines_of(b) == Split(b, NL)

\* A plausible slip: prev_line is never advanced past the first line.
RECURSIVE is_sorted_stale_prev(_, _, _, _)
is_sorted_stale_prev(acc, kc, prev_line, rest) ==
    IF rest = <<>> THEN TRUE
    ELSE IF compare_lines(acc, kc, prev_line, Head(rest)) = "Greater" THEN FALSE
    ELSE is_sorted_stale_prev(acc, kc, prev_line, Tail(rest))

\* The loop of TextDb::is_sorted over the remaining lines.
RECURSIVE is_sorted_from(_, _, _, _)
is_sorted_from(acc, kc, prev_line, rest) ==
    IF rest = <<>> THEN TRUE
    ELSE IF compare_lines(acc, kc, prev_line, Head(rest)) = "Greater" THEN FALSE
    ELSE is_sorted_from(acc, kc, Head(rest), Tail(rest))

\* TextDb::is_sorted
is_sorted(acc, kc, b) ==
    LET ls == lines_of(b)
    IN  is_sorted_from(acc, kc, Head(ls), Tail(ls))

\* TextDb::keys
keys(kc, b) == [n \in 1..Len(lines_of(b)) |-> key(kc, lines_of(b)[n])]

\* TextDb::cols
cols(b, i) == [n \in 1..Len(lines_of(b)) |-> col(lines_of(b)[n], i)]

\* What find_line_at gives when it panics: why, and no line.
NoLine(why) == [panic |-> why, start |-> 0, end |-> 0, line |-> <<>>]

\* A plausible slip: end is the offset of the newline (pos + p), not the
\* offset one past it (pos + p + 1).
find_line_at_end_on_newline(b, lo, hi, pos) ==
    IF lo > pos \/ pos > Len(b) \/ pos > hi \/ hi > Len(b) THEN NoLine("slice")
    ELSE LET before == {p \in lo..(pos - 1) : b[p + 1] = NL}
             after == {p \in pos..(hi - 1) : b[p + 1] = NL}
             start == IF before = {} THEN lo ELSE SetMax(before) + 1
             end == IF after = {} THEN hi ELSE SetMin(after)
             line_end == IF end # 0 /\ b[end] = NL THEN end - 1 ELSE end
         IN  IF ~(start >= lo /\ end <= hi /\ end >= start) THEN NoLine("assert")
             ELSE IF start > line_end THEN NoLine("slice")
             ELSE [panic |-> "none", start |-> start, end |-> end,
                   line |-> Slice(b, start, line_end)]

\* TextDb::find_line_at(bytes, min, max, pos). The slices bytes[min..pos],
\* bytes[pos..max] and bytes[start..line_end] panic when their bounds are out
\* of order or past the buffer.
find_line_at(b, lo, hi, pos) ==
    IF lo > pos \/ pos > Len(b) \/ pos > hi \/ hi > Len(b) THEN NoLine("slice")
    ELSE LET before == {p \in lo..(pos - 1) : b[p + 1] = NL}
             after == {p \in pos..(hi - 1) : b[p + 1] = NL}
             start == IF before = {} THEN lo ELSE SetMax(before) + 1
             end == IF after = {} THEN hi ELSE SetMin(after) + 1
             line_end == IF end # 0 /\ b[end] = NL THEN end - 1 ELSE end
         IN  IF ~(start >= lo /\ end <= hi /\ end >= start) THEN NoLine("assert")
             ELSE IF start > line_end THEN NoLine("slice")
             ELSE [panic |-> "none", start |-> start, end |-> end,
                   line |-> Slice(b, start, line_end)]

\* The outcome of one iteration of the search loop: the range, where the
\* program continues, and how the loop ended if it did.
Outcome(lo, hi, where, why) == [min |-> lo, max |-> hi, pc |-> where, how |-> why]

\* A plausible slip: the Less arm moves min to the probed line's start.
less_arm_to_start(lo, hi, probe) == Outcome(probe.start, hi, "loop", "none")

\* Ordering::Less arm: assert!(min != end); min = end
less_arm(lo, hi, probe) ==
    IF lo = probe.end THEN Outcome(lo, hi, "panic", "assert")
    ELSE Outcome(probe.end, hi, "loop", "none")

\* Ordering::Greater arm: assert!(max != start); max = start
greater_arm(lo, hi, probe) ==
    IF hi = probe.start THEN Outcome(lo, hi, "panic", "assert")
    ELSE Outcome(lo, probe.start, "loop", "none")

\* The second half of the Ordering::Equal arm: the line at max-1. lo is min
\* as the first half left it. max - 1 below 0 overflows usize: a panic in a
\* debug build, and in a release build a position past the buffer, where
\* bytes[min..pos] panics.
equal_arm_max(b, acc, kc, k, lo, hi, min_is_equal) ==
    LET z == find_line_at(b, lo, hi, hi - 1)
    IN  IF z.panic # "none" THEN Outcome(lo, hi, "panic", z.panic)
        ELSE IF z.end # hi THEN Outcome(lo, hi, "panic", "assert")
        ELSE LET cz == compare_key(acc, kc, z.line, k)
             IN  CASE cz = "Less" -> Outcome(lo, lo, "done", "collapse")
                   [] cz = "Equal" ->
                        IF min_is_equal
                        THEN Outcome(lo, IF hi # 0 /\ b[hi] = NL THEN hi - 1 ELSE hi,
                                     "done", "success")
                        ELSE Outcome(lo, hi, "loop", "none")
                   [] cz = "Greater" ->
                        IF hi = z.start THEN Outcome(lo, hi, "panic", "assert")
                        ELSE Outcome(lo, z.start, "loop", "none")

\* Ordering::Equal arm: the line at min, then the line at max-1.
equal_arm(b, acc, kc, k, lo, hi) ==
    LET a == find_line_at(b, lo, hi, lo)
    IN  IF a.panic # "none" THEN Outcome(lo, hi, "panic", a.panic)
        ELSE IF a.start # lo THEN Outcome(lo, hi, "panic", "assert")
        ELSE LET ca == compare_key(acc, kc, a.line, k)
             IN  CASE ca = "Less" ->
                        IF lo = a.end THEN Outcome(lo, hi, "panic", "assert")
                        ELSE equal_arm_max(b, acc, kc, k, a.end, hi, FALSE)
                   [] ca = "Equal" -> equal_arm_max(b, acc, kc, k, lo, hi, TRUE)
                   [] ca = "Greater" -> Outcome(lo, lo, "done", "collapse")

\* The lines get_matching_lines yields: bytes[min..max].split(b'\n')
matching_lines(b, lo, hi) == Split(Slice(b, lo, hi), NL)

\* ---------------------------------------------------------------- state

VARIABLES
    content,   \* the bytes handed to the constructor (a string, or a file's content)
    ctor,      \* the constructor that built the map
    accessor,  \* "TsvText" or "TsvParse" (TsvParse<u8, KEY_COL>)
    key_col,   \* Accessor::KEY_COLUMN
    bytes,     \* map.bytes()
    pc,        \* "new", "idle", "loop" (at the head of the search loop), "done", "panic"
    target,    \* get_matching_lines' key
    min,       \* the search range
    max,
    iters,     \* iterations of the search loop begun so far
    arm,       \* the arm the last iteration's first compare_key took
    how,       \* how the loop ended: "success", "collapse", "assert", "slice"
    out        \* what the last call returned

vars == <<content, ctor, accessor, key_col, bytes, pc, target, min, max, iters, arm, how, out>>

NoOut == [op |-> "none", arg |-> 0, val |-> <<>>]

\* Lists of single-byte keys, one key to a line, in any order.
KeyLists == SeqsUpTo(KeyBytes, MaxLines) \ {<<>>}

\* The lines joined by newlines: lines.join("\n")
JoinLines(ks) == [p \in 1..(2 * Len(ks) - 1) |-> IF p % 2 = 1 THEN ks[(p + 1) \div 2] ELSE NL]

\* The contents a map is built from: every byte string up to MaxLen, and the
\* longer ones that hold up to MaxLines one-byte lines.
Contents == SeqsUpTo(Alphabet, MaxLen) \cup {JoinLines(ks) : ks \in KeyLists}

Accessors == {"TsvText", "TsvParse"}

KeyColumns == {0, 1}

\* The keys a caller asks for: byte strings for TsvText, u8 values for TsvParse.
TextKeys == SeqsUpTo(KeyBytes, MaxKeyLen)

ParseKeys == {parse_or_default(s) : s \in SeqsUpTo(KeyBytes, MaxKeyLen + 1)}

KeysOf(acc) == IF acc = "TsvText" THEN TextKeys ELSE ParseKeys

Init ==
    /\ content \in Contents
    /\ ctor = "none"
    /\ accessor = "none"
    /\ key_col = 0
    /\ bytes = <<>>
    /\ pc = "new"
    /\ target = <<>>
    /\ min = 0
    /\ max = 0
    /\ iters = 0
    /\ arm = "none"
    /\ how = "none"
    /\ out = NoOut

\* -------------------------------------------------------------- actions

\* TextDb::new(map, accessor) over a map built by one of the constructors.
Construct ==
    /\ pc = "new"
    /\ \E c \in Constructors, a \in Accessors, kc \in KeyColumns :
        /\ ctor' = c
        /\ accessor' = a
        /\ key_col' = kc
        /\ bytes' = map_bytes(c, content)
    /\ pc' = "idle"
    /\ UNCHANGED <<content, target, min, max, iters, arm, how, out>>

IsSorted ==
    /\ pc = "idle"
    /\ out' = [op |-> "is_sorted", arg |-> 0, val |-> is_sorted(accessor, key_col, bytes)]
    /\ UNCHANGED <<content, ctor, accessor, key_col, bytes, pc, target, min, max, iters, arm, how>>

Keys ==
    /\ pc = "idle"
    /\ out' = [op |-> "keys", arg |-> 0, val |-> keys(key_col, bytes)]
    /\ UNCHANGED <<content, ctor, accessor, key_col, bytes, pc, target, min, max, iters, arm, how>>

Cols ==
    /\ pc = "idle"
    /\ \E i \in 0..MaxCol : out' = [op |-> "cols", arg |-> i, val |-> cols(bytes, i)]
    /\ UNCHANGED <<content, ctor, accessor, key_col, bytes, pc, target, min, max, iters, arm, how>>

\* get_matching_lines: min = 0, max = bytes.len(), and into the loop.
GetMatchingLines ==
    /\ pc = "idle"
    /\ \E k \in KeysOf(accessor) : target' = k
    /\ min' = 0
    /\ max' = Len(bytes)
    /\ pc' = "loop"
    /\ iters' = 0
    /\ arm' = "none"
    /\ how' = "none"
    /\ out' = NoOut
    /\ UNCHANGED <<content, ctor, accessor, key_col, bytes>>

\* let mid = min + (max - min) / 2
Mid == min + (max - min) \div 2

\* find_line_at(bytes, min, max, mid)
Probe == find_line_at(bytes, min, max, Mid)

ProbeCmp == compare_key(accessor, key_col, Probe.line, target)

\* The end of an iteration: the new range; after a break the lines of
\* bytes[min..max] are returned, and a panic returns nothing.
Finish(o, taken) ==
    /\ min' = o.min
    /\ max' = o.max
    /\ pc' = o.pc
    /\ how' = o.how
    /\ arm' = taken
    /\ iters' = iters + 1
    /\ out' = IF o.pc = "done"
              THEN [op |-> "get_matching_lines", arg |-> 0,
                    val |-> matching_lines(bytes, o.min, o.max)]
              ELSE out
    /\ UNCHANGED <<content, ctor, accessor, key_col, bytes, target>>

\* The probe itself panics.
ProbePanics ==
    /\ pc = "loop"
    /\ Probe.panic # "none"
    /\ Finish(Outcome(min, max, "panic", Probe.panic), "none")

ProbeLess ==
    /\ pc = "loop"
    /\ Probe.panic = "none"
    /\ ProbeCmp = "Less"
    /\ Finish(less_arm(min, max, Probe), "Less")

ProbeEqual ==
    /\ pc = "loop"
    /\ Probe.panic = "none"
    /\ ProbeCmp = "Equal"
    /\ Finish(equal_arm(bytes, accessor, key_col, target, min, max), "Equal")

ProbeGreater ==
    /\ pc = "loop"
    /\ Probe.panic = "none"
    /\ ProbeCmp = "Greater"
    /\ Finish(greater_arm(min, max, Probe), "Greater")

Next ==
    \/ Construct
    \/ IsSorted
    \/ Keys
    \/ Cols
    \/ GetMatchingLines
    \/ ProbePanics
    \/ ProbeLess
    \/ ProbeEqual
    \/ ProbeGreater

Spec == Init /\ [][Next]_vars

\* ------------------------------------------------- reference definitions
\* What the claims speak of, stated without the program's own operators.

\* The n-th smallest element of a set of numbers.
Nth(S, n) == CHOOSE x \in S : Cardinality({y \in S : y < x}) = n - 1

SepAt(s, sep) == {p \in 1..Len(s) : s[p] = sep}

\* The number of sep-separated pieces of s, and the n-th of them.
RefCount(s, sep) == Cardinality(SepAt(s, sep)) + 1

RefPiece(s, sep, n) ==
    LET first == IF n = 1 THEN 1 ELSE Nth(SepAt(s, sep), n - 1) + 1
        last == IF n = RefCount(s, sep) THEN Len(s) ELSE Nth(SepAt(s, sep), n) - 1
    IN  SubSeq(s, first, last)

\* The records of a buffer, in buffer order.
RefLines(b) == [n \in 1..RefCount(b, NL) |-> RefPiece(b, NL, n)]

\* The key column of a line; empty when the line has too few fields.
RefKey(line) ==
    IF key_col + 1 <= RefCount(line, SEPARATOR)
    THEN RefPiece(line, SEPARATOR, key_col + 1)
    ELSE <<>>

\* a <= b in lexicographic byte order.
LexLeq(a, b) ==
    \E n \in 0..Len(a) :
        /\ n <= Len(b)
        /\ \A p \in 1..n : a[p] = b[p]
        /\ \/ n = Len(a)
           \/ (n < Len(b) /\ a[n + 1] < b[n + 1])

RECURSIVE Pow10(_)
Pow10(n) == IF n = 0 THEN 1 ELSE 10 * Pow10(n - 1)

\* The sum of f over the set S of numbers.
RECURSIVE SumOver(_, _)
SumOver(f, S) ==
    IF S = {} THEN 0 ELSE LET x == SetMin(S) IN f[x] + SumOver(f, S \ {x})

\* The u8 a key column stands for under TsvParse: its decimal value, or 0
\* (the default) when it is no decimal numeral of a u8.
RefNumber(s) ==
    LET digits == s # <<>> /\ \A p \in 1..Len(s) : s[p] \in Digits
        value == SumOver([p \in 1..Len(s) |-> (s[p] - 48) * Pow10(Len(s) - p)], 1..Len(s))
    IN  IF digits /\ value <= U8_MAX THEN value ELSE 0

\* The key of line1 is at most the key of line2 under the configured comparator.
KeyLeq(line1, line2) ==
    IF accessor = "TsvText"
    THEN LexLeq(RefKey(line1), RefKey(line2))
    ELSE RefNumber(RefKey(line1)) <= RefNumber(RefKey(line2))

\* The key column of the line equals the key searched for.
KeyIsTarget(line) ==
    IF accessor = "TsvText" THEN RefKey(line) = target ELSE RefNumber(RefKey(line)) = target

\* The buffer's lines are non-decreasing by key column.
SortedBuffer ==
    \A m, n \in 1..Len(RefLines(bytes)) : m < n => KeyLeq(RefLines(bytes)[m], RefLines(bytes)[n])

KeyPresent == \E n \in 1..Len(RefLines(bytes)) : KeyIsTarget(RefLines(bytes)[n])

\* The lines whose key column equals the key, in buffer order.
MatchingRun == SelectSeq(RefLines(bytes), KeyIsTarget)

Searched == pc \in {"done", "panic"}

\* ---------------------------------------------------------------- claims

\* C1: for a buffer whose lines are non-decreasing by key column and a key
\* that some line holds, get_matching_lines returns exactly the lines whose
\* key column equals the key, in buffer order.
C1_MatchingRunReturned ==
    (Searched /\ SortedBuffer /\ KeyPresent) => (pc = "done" /\ out.val = MatchingRun)

\* Where the statement of C1 does hold: on a buffer that is not empty and
\* does not end in a newline.
MatchingRunOfStrippedBuffer ==
    (Searched /\ SortedBuffer /\ KeyPresent /\ bytes # <<>> /\ bytes[Len(bytes)] # NL)
        => (pc = "done" /\ how = "success" /\ out.val = MatchingRun)

\* C2: for a buffer sorted by key column and a key that no line holds,
\* get_matching_lines returns no line at all.
C2_AbsentKeyEmpty ==
    (Searched /\ SortedBuffer /\ ~KeyPresent) => (pc = "done" /\ out.val = <<>>)

\* What the search does for the key no line holds: it always panics.
AbsentKeyPanics == (Searched /\ SortedBuffer /\ ~KeyPresent) => pc = "panic"

\* C3: for a buffer sorted by key column the search loop ends only by the
\* success break or by a collapse break, never by a failed assertion or an
\* out-of-range slice.
C3_EndsBySuccessOrCollapse ==
    (Searched /\ SortedBuffer) => how \in {"success", "collapse"}

SortedAsText ==
    \A n \in 1..(Len(RefLines(bytes)) - 1) :
        LexLeq(RefKey(RefLines(bytes)[n]), RefKey(RefLines(bytes)[n + 1]))

C5_EmptyBufferEmptyResult ==
    (Searched /\ bytes = <<>>) => (pc = "done" /\ min = 0 /\ max = 0 /\ out.val = <<>>)

\* C6: whatever the constructor, the buffer ends in no newline, and the same
\* content with one more trailing newline gives the same keys() and cols(i).
C6_TrailingNewlinesStripped ==
    pc # "new" =>
        /\ (bytes = <<>> \/ bytes[Len(bytes)] # NL)
        /\ keys(key_col, bytes) = keys(key_col, map_bytes(ctor, Append(content, NL)))
        /\ \A i \in 0..MaxCol : cols(bytes, i) = cols(map_bytes(ctor, Append(content, NL)), i)

\* The safe constructors do strip every trailing newline.
SafeMapsStrip ==
    (pc # "new" /\ ctor # "UnsafeMemoryMap_new") =>
        /\ (bytes = <<>> \/ bytes[Len(bytes)] # NL)
        /\ \E n \in 0..Len(content) :
            /\ bytes = SubSeq(content, 1, n)
            /\ \A p \in (n + 1)..Len(content) : content[p] = NL

\* C7: cols(i) yields one value for every line of the buffer, and the empty
\* value for every line that has i or fewer fields.
C7_ColPastFieldsIsEmpty ==
    out.op = "cols" =>
        /\ Len(out.val) = Len(RefLines(bytes))
        /\ \A n \in 1..Len(RefLines(bytes)) :
            out.arg >= RefCount(RefLines(bytes)[n], SEPARATOR) => out.val[n] = <<>>

\* cols(i) has been asked with i past the fields of a line whose last field
\* is not empty.
C7_Witness ==
    /\ out.op = "cols"
    /\ \E n \in 1..Len(RefLines(bytes)) :
        LET line == RefLines(bytes)[n]
        IN  /\ RefCount(line, SEPARATOR) = 2
            /\ out.arg >= 2
            /\ RefPiece(line, SEPARATOR, 2) # <<>>

\* The offset is where a line starts: 0 or one past a newline.
LineStart(p) == p = 0 \/ (p >= 1 /\ p <= Len(bytes) /\ bytes[p] = NL)

\* The offset is where a line ends: the buffer's length or one past a newline.
LineEnd(p) == p = Len(bytes) \/ (p >= 1 /\ p <= Len(bytes) /\ bytes[p] = NL)

MinAfterFirstHalf ==
    LET a == find_line_at(bytes, min, max, min)
    IN  IF compare_key(accessor, key_col, a.line, target) = "Less" THEN a.end ELSE min

C10_IterationShrinksRange ==
    [][(pc = "loop" /\ pc' = "loop") => (max' - min' < max - min)]_vars

\* An iteration has gone through the Equal arm and the loop goes on, on a
\* buffer that is not sorted.
C10_Witness ==
    /\ pc = "loop"
    /\ arm = "Equal"
    /\ ~SortedBuffer

\* ------------------------------------------- the cost of a centred run
\* C8 speaks of O(log n) iterations, which no bounded check decides. What the
\* loop does on the contents "0" x k, "1", "A" x k, searched for "1", is
\* measured here: the probe stays on the run and each iteration moves min and
\* max by one line, k + 1 iterations for 2k + 1 lines.

CentredRun(k) ==
    JoinLines([n \in 1..(2 * k + 1) |-> IF n <= k THEN 48 ELSE IF n = k + 1 THEN 49 ELSE 65])

InitCentred ==
    /\ Init
    /\ content \in {CentredRun(k) : k \in 0..MaxSide}

SpecCentred == InitCentred /\ [][Next]_vars

IterationsOnCentredRun ==
    (pc = "done" /\ accessor = "TsvText" /\ key_col = 0 /\ target = <<49>>)
        => (how = "success" /\ 4 * iters = Len(bytes) + 3)

\* ------------------------------------------------------ find_line_at

\* What C11 says find_line_at(bytes, lo, hi, pos) returns: start one past the
\* nearest newline in [lo, pos) or lo, end one past the nearest newline in
\* [pos, hi) or hi, and the bytes between them without the line's
\* terminating newline.
RefStart(lo, pos) ==
    IF \E p \in lo..(pos - 1) : bytes[p + 1] = NL
    THEN CHOOSE q \in (lo + 1)..pos :
            /\ bytes[q] = NL
            /\ \A p \in q..(pos - 1) : bytes[p + 1] # NL
    ELSE lo

RefEnd(hi, pos) ==
    IF \E p \in pos..(hi - 1) : bytes[p + 1] = NL
    THEN CHOOSE q \in (pos + 1)..hi :
            /\ bytes[q] = NL
            /\ \A p \in pos..(q - 2) : bytes[p + 1] # NL
    ELSE hi

RefContent(start, end) ==
    IF start < end /\ bytes[end] = NL
    THEN SubSeq(bytes, start + 1, end - 1)
    ELSE SubSeq(bytes, start + 1, end)

Resolves(lo, hi, pos) ==
    LET r == find_line_at(bytes, lo, hi, pos)
    IN  /\ r.panic = "none"
        /\ lo <= r.start /\ r.start <= r.end /\ r.end <= hi
        /\ r.start = RefStart(lo, pos)
        /\ r.end = RefEnd(hi, pos)
        /\ r.line = RefContent(r.start, r.end)

\* C11: on every line-aligned range [min, max) and every pos with
\* min <= pos <= max, min == pos == max included, find_line_at returns
\* min <= start <= end <= max, the line boundaries around pos and the line
\* without its terminating newline.
C11_FindLineAtResolves ==
    (pc = "loop" /\ LineStart(min) /\ LineEnd(max)) =>
        \A pos \in min..max : Resolves(min, max, pos)

\* What find_line_at does do: it resolves every pos but pos = max behind a
\* newline, where start = end = pos and the newline before it is trimmed.
FindLineAtResolvesUnlessBehindNewline ==
    pc = "loop" =>
        \A pos \in min..max :
            IF pos = max /\ pos >= 1 /\ bytes[pos] = NL
            THEN find_line_at(bytes, min, max, pos).panic = "slice"
            ELSE Resolves(min, max, pos)

\* ---------------------------------------------------- the collapse break

\* The line of the range [min, max) around pos.
RefLineAt(pos) == RefContent(RefStart(min, pos), RefEnd(max, pos))

\* The key column of the line is below, or above, the key searched for.
KeyBelowTarget(line) ==
    IF accessor = "TsvText"
    THEN LexLeq(RefKey(line), target) /\ RefKey(line) # target
    ELSE RefNumber(RefKey(line)) < target

KeyAboveTarget(line) ==
    IF accessor = "TsvText"
    THEN ~LexLeq(RefKey(line), target)
    ELSE RefNumber(RefKey(line)) > target

\* The case C12 speaks of, at the head of an iteration: the probed line is
\* Equal to the key, and the line at min is Greater or the last line of the
\* range is Less.
ProbeEqualOutOfOrder ==
    /\ pc = "loop"
    /\ min < max
    /\ KeyIsTarget(RefLineAt(Mid))
    /\ \/ KeyAboveTarget(RefLineAt(min))
       \/ KeyBelowTarget(RefLineAt(max - 1))

\* C12: in that case the iteration collapses the range (max <- min), the
\* search ends and get_matching_lines yields no line.
C12_CollapseYieldsNoLine ==
    [][ProbeEqualOutOfOrder => (pc' = "done" /\ max' = min' /\ out'.val = <<>>)]_vars

\* What the collapse break does yield: the range is collapsed and the search
\* ends, and the split of the empty slice bytes[min..min] is one empty line.
CollapseYieldsOneEmptyLine ==
    [][ProbeEqualOutOfOrder =>
        (pc' = "done" /\ how' = "collapse" /\ max' = min' /\ out'.val = << <<>> >>)]_vars

\* The collapse break is taken in no other case.
CollapseOnlyOutOfOrder ==
    [][(pc = "loop" /\ how' = "collapse") => ProbeEqualOutOfOrder]_vars

\* ------------------------------------------------- every line is a match

\* The buffer is not empty and the key column of every one of its lines
\* equals the key searched for.
EveryLineMatches ==
    /\ bytes # <<>>
    /\ \A n \in 1..Len(RefLines(bytes)) : KeyIsTarget(RefLines(bytes)[n])

\* The search ended by the success break of its first iteration, on the whole
\* buffer, and returned every line.
WholeBufferAtOnce ==
    /\ pc = "done"
    /\ how = "success"
    /\ iters = 1
    /\ min = 0
    /\ max = Len(bytes)
    /\ out.val = RefLines(bytes)

\* C13: on a non-empty buffer in which every line's key column equals the
\* key, get_matching_lines takes the success break on its first iteration
\* with min = 0 and max = len(buffer) unchanged, and returns every line.
C13_AllEqualReturnsWholeBuffer == (Searched /\ EveryLineMatches) => WholeBufferAtOnce

\* The same, for the buffers that do not end in a newline.
AllEqualStrippedReturnsWholeBuffer ==
    (Searched /\ EveryLineMatches /\ bytes[Len(bytes)] # NL) => WholeBufferAtOnce

AllEqualStrippedSearched ==
    /\ Searched
    /\ EveryLineMatches
    /\ bytes[Len(bytes)] # NL
    /\ Len(RefLines(bytes)) >= 2
    /\ WholeBufferAtOnce

\* ------------------------------------------------- the search invariant

\* The offsets at which the n-th line of the buffer starts and ends; a line
\* ends one past its newline, the last line at the buffer's length.
LineFrom(n) == IF n = 1 THEN 0 ELSE Nth(SepAt(bytes, NL), n - 1)

LineTo(n) == IF n = RefCount(bytes, NL) THEN Len(bytes) ELSE Nth(SepAt(bytes, NL), n)

\* The lines before min are Less, the lines after max are Greater and the
\* lines that are Equal lie within [min, max).
RangeHoldsTheMatches ==
    \A n \in 1..RefCount(bytes, NL) :
        LET line == RefLines(bytes)[n]
        IN  /\ LineTo(n) <= min => KeyBelowTarget(line)
            /\ LineFrom(n) >= max => KeyAboveTarget(line)
            /\ KeyIsTarget(line) => (min <= LineFrom(n) /\ LineTo(n) <= max)

\* C14: on a buffer sorted by key column, at the head of every iteration of
\* the search loop every line that ends at or before min is Less than the
\* key, every line that starts at or after max is Greater than the key, and
\* no line Equal to the key is outside [min, max).
C14_RangeHoldsTheMatches == (pc = "loop" /\ SortedBuffer) => RangeHoldsTheMatches

\* The same, for the non-empty buffers that do not end in a newline.
StrippedRangeHoldsTheMatches ==
    (pc = "loop" /\ SortedBuffer /\ bytes # <<>> /\ bytes[Len(bytes)] # NL)
        => RangeHoldsTheMatches

\* A later iteration on a sorted, stripped buffer with lines on both sides of
\* the range and a match inside it.
StrippedRangeNarrowed ==
    /\ pc = "loop"
    /\ SortedBuffer
    /\ bytes # <<>>
    /\ bytes[Len(bytes)] # NL
    /\ iters >= 1
    /\ 0 < min /\ min < max /\ max < Len(bytes)
    /\ KeyPresent

====
